---- MODULE Spec2Model ----
(***************************************************************************)
(* Model of the lookahead scheduler of App.tsx (Fret Viewer with Chord     *)
(* Progression): the React state of the transport, the refs the scheduler  *)
(* effect shares with its polling callback, the browser timers it creates  *)
(* and the tone events it hands to the audio backend.                      *)
(*                                                                         *)
(* Time is counted in ticks of 1/TicksPerMs milliseconds so that 60/bpm    *)
(* and its quarter fractions are whole numbers for every tempo used.       *)
(* Bar numbers are counted in units of 1/BarUnit bar, because the Bar      *)
(* input delivers any decimal the user types (+e.target.value).            *)
(***************************************************************************)
EXTENDS Integers, Sequences, FiniteSets, TLC

\* ------------------------------------------------------------------ bounds
TicksPerMs == 6
BarUnit == 2
MaxClockMs == 2100
MaxOps == 3

\* ------------------------------------------------------- program constants
lookaheadMs == 25
scheduleAheadMs == 100
firstClickDelayMs == 50
displayEpsilonMs == 10
BarCount == 12
DefaultBpm == 90
DefaultBeatsPerBar == 4
DefaultClickVol == 50
MinBpm == 30
MaxBpm == 240

Ms(n) == n * TicksPerMs
Bar(n) == n * BarUnit

Max2(a, b) == IF a >= b THEN a ELSE b
Min2(a, b) == IF a <= b THEN a ELSE b

AccentModes == {"downbeat", "backbeat", "even"}
Anticipations == {"immediate", "e", "and", "a"}

NoTimer == 0
NoTone == [time |-> -1, beat |-> 0, accent |-> FALSE, vol |-> 0, k |-> -1]

\* ------------------------------------------------------------- user inputs
\* Numbers the BPM field can deliver (0 stands for an empty or invalid field).
BpmInputs == {0, 120}
\* Options chosen in the Accent and Switch timing selects.
AccentInputs == {"downbeat", "backbeat"}
AnticipationInputs == {"e", "a"}
BeatsPerBarOptions == {3, 4, 6}
ClickVolInputs == {DefaultClickVol, 100}
\* Numbers the Bar field can deliver, in 1/BarUnit bars: empty (0), 1, a
\* fraction just above 1, a fraction just below 12, and 13.
BarInputs == {0, Bar(1), Bar(1) + 1, Bar(BarCount) - 1, Bar(BarCount + 1)}
\* Cells of the progression grid that are clicked.
CellInputs == {BarCount \div 2}
\* Amounts by which the audio clock is seen to advance between two events.
ClockSteps == {Ms(28 * lookaheadMs)}
RunSteps == {Ms(lookaheadMs), Ms(2 * lookaheadMs), Ms(3 * lookaheadMs)}

VARIABLES
  clock,               \* ctx.currentTime, in ticks
  audioCtxRef,         \* TRUE once the AudioContext exists
  isPlaying, bpm, beatsPerBar, beatIdx, clickVol,
  currentBar, displayBar, accentMode, anticipation,
  beatRef, barRef, schedulerTimerIdRef, nextBeatTimeRef,
  intervals,           \* active setInterval registrations, with their closure
  timeouts,            \* pending setTimeout callbacks, in creation order
  pending,             \* state updates queued by timer callbacks, not yet rendered
  tones,               \* tone events handed to the backend by the last step
  prevTone,            \* the last tone event handed over before those
  startClock, sessionK,\* clock at the last scheduler (re)initialisation; tones since
  meterFresh,          \* TRUE from a Beats/Bar change until the next tone
  mounted,             \* FALSE once a render threw and ErrorBoundary replaced App
  ops,                 \* number of user operations so far
  startFret, endFret, lefty,        \* App state: fret window and handedness
  keyA, scaleA, chordToneMode,      \* App state: key, scale and chord-tone mode
  progressionOn, progressionId, progQuality,  \* App state: progression view
  call,                \* the call of a music.ts / App.tsx function under way
  ret                  \* what that call returned or threw

vars == <<clock, audioCtxRef, isPlaying, bpm, beatsPerBar, beatIdx, clickVol,
          currentBar, displayBar, accentMode, anticipation,
          beatRef, barRef, schedulerTimerIdRef, nextBeatTimeRef,
          intervals, timeouts, pending, tones, prevTone, startClock, sessionK,
          meterFresh, mounted, ops,
          startFret, endFret, lefty, keyA, scaleA, chordToneMode,
          progressionOn, progressionId, progQuality, call, ret>>

\* the scheduler's part of the state, the fretboard view's, and the call harness's
schedVars == <<clock, audioCtxRef, isPlaying, bpm, beatsPerBar, beatIdx, clickVol,
               currentBar, displayBar, accentMode, anticipation,
               beatRef, barRef, schedulerTimerIdRef, nextBeatTimeRef,
               intervals, timeouts, pending, tones, prevTone, startClock, sessionK,
               meterFresh, mounted, ops>>

viewVars == <<startFret, endFret, lefty, keyA, scaleA, chordToneMode,
              progressionOn, progressionId, progQuality>>

libVars == <<call, ret>>

\* ------------------------------------------------------- pure helpers (App)
\* a beat length that only guards the division by zero
SecPerBeatSigned(b) == (60 * 1000 * TicksPerMs) \div (IF b = 0 THEN 1 ELSE b)

\* const secPerBeat = 60 / Math.max(1, bpm)
SecPerBeat(b) == (60 * 1000 * TicksPerMs) \div Max2(1, b)

isAccentBeatOnlyTwo(beat, bpb, mode) ==
  IF mode = "even" THEN FALSE
  ELSE IF mode = "downbeat" THEN beat = 1
  ELSE beat = 2

\* isAccentBeat(beat, beatsPerBar, mode)
isAccentBeat(beat, bpb, mode) ==
  IF mode = "even" THEN FALSE
  ELSE IF mode = "downbeat" THEN beat = 1
  ELSE beat = 2 \/ (bpb >= 4 /\ beat = 4)

\* offsetFactor, in quarters of a beat
OffsetQuarters(a) ==
  IF a = "immediate" THEN 0 ELSE IF a = "e" THEN 1 ELSE IF a = "and" THEN 2 ELSE 3

\* a beat counter that wraps one beat late
NextBeatLateWrap(curBeat, bpb) == IF curBeat > bpb THEN 1 ELSE curBeat + 1

\* const nextBeat = (curBeat >= beatsPerBar) ? 1 : (curBeat + 1)
NextBeat(curBeat, bpb) == IF curBeat >= bpb THEN 1 ELSE curBeat + 1

\* b => (b >= 12 ? 1 : b + 1)
NextBar(b) == IF b >= Bar(BarCount) THEN Bar(1) ELSE b + Bar(1)

\* b => (b <= 1 ? 12 : b - 1)
PrevBar(b) == IF b <= Bar(1) THEN Bar(BarCount) ELSE b - Bar(1)

\* Math.min(12, Math.max(1, +e.target.value || 1))
ClampBar(v) == Min2(Bar(BarCount), Max2(Bar(1), IF v = 0 THEN Bar(1) ELSE v))

\* Math.min(240, Math.max(30, +e.target.value || 30))
ClampBpm(v) == Min2(MaxBpm, Max2(MinBpm, IF v = 0 THEN MinBpm ELSE v))

\* a Beats/Bar handler that keeps the beat position
MeterKeepBeat(b) == b

\* beatRef.current = 1; setBeatIdx(1)
MeterResetBeat(b) == 1

\* beatRef.current = beatIdx || 1
InitBeat(bi) == IF bi = 0 THEN 1 ELSE bi

\* the first click at the clock's current time, without the fixed delay
FirstBeatTimeNoDelay(now) == now

\* nextBeatTimeRef.current = ctx.currentTime + 0.05
FirstBeatTime(now) == now + Ms(firstClickDelayMs)

\* the next event one polling interval late: timing taken from the callbacks
NextBeatTimeDrift(t, spb) == t + spb + Ms(lookaheadMs)

\* nextBeatTimeRef.current += secPerBeat
NextBeatTime(t, spb) == t + spb

RECURSIVE ApplyNextBar(_, _)
ApplyNextBar(b, n) == IF n = 0 THEN b ELSE ApplyNextBar(NextBar(b), n - 1)

\* ------------------------------------------------------------ React state
\* The component state of one render.
ReactState ==
  [isPlaying |-> isPlaying, bpm |-> bpm, beatsPerBar |-> beatsPerBar,
   beatIdx |-> beatIdx, clickVol |-> clickVol, currentBar |-> currentBar,
   displayBar |-> displayBar, accentMode |-> accentMode,
   anticipation |-> anticipation]

NoPending == [bar |-> 0, beat |-> 0, disp |-> 0]

LastTone == IF tones # <<>> THEN tones[Len(tones)] ELSE prevTone

\* A step that hands no tone to the backend.
NoEmit == tones' = <<>> /\ prevTone' = LastTone

\* a clearInterval that cancels nothing
ClearIntervalNone(ivs, id) == ivs

\* clearInterval(id)
ClearInterval(ivs, id) == {iv \in ivs : iv.id # id}

\* a cleanup that forgets the handle without cancelling the interval
EffectCleanupSkip(ivs, ref) == ivs

\* if (schedulerTimerIdRef.current != null) { clearInterval(...); ... = null }
EffectCleanup(ivs, ref) == IF ref # NoTimer THEN ClearInterval(ivs, ref) ELSE ivs

\* the handle window.setInterval returns: one no active timer has
NewTimerId(ivs) ==
  CHOOSE i \in 1..(Cardinality(ivs) + 1) : \A iv \in ivs : iv.id # i

\* window.setInterval(schedule, lookaheadMs): schedule closes over the render's
\* bpm, beatsPerBar, accentMode, anticipation and clickVol.
SetInterval(ivs, s) ==
  ivs \cup {[id |-> NewTimerId(ivs), bpm |-> s.bpm, beatsPerBar |-> s.beatsPerBar,
             accentMode |-> s.accentMode, anticipation |-> s.anticipation,
             clickVol |-> s.clickVol]}

\* Rendering App throws when displayBar selects no chord of the progression:
\* progression[(displayBar - 1 + 12) % 12] is undefined for a fractional
\* displayBar and pcFromNameUnsafe(undefined) calls undefined.trim().
RenderThrows(db) == db % BarUnit # 0

\* One render that commits the component state s, followed by the effects whose
\* dependencies changed, in declaration order: the barRef sync, the display
\* sync and the scheduler effect (cleanup of its previous run, then its body).
\* br is beatRef.current as the event handler left it. A render that throws
\* commits nothing: ErrorBoundary replaces App, whose effect cleanups run.
Commit(s, br) ==
  LET barChanged == s.currentBar # currentBar
      playChanged == s.isPlaying # isPlaying
      schedChanged == \/ playChanged
                      \/ s.bpm # bpm
                      \/ s.beatsPerBar # beatsPerBar
                      \/ s.clickVol # clickVol
                      \/ s.accentMode # accentMode
                      \/ s.anticipation # anticipation
      \* cleanup returned by the previous run (only its Running branch returns one)
      doCleanup == schedChanged /\ isPlaying
      ivsA == IF doCleanup THEN EffectCleanup(intervals, schedulerTimerIdRef)
              ELSE intervals
      refA == IF doCleanup THEN NoTimer ELSE schedulerTimerIdRef
      \* body, stop branch
      ivsStop == EffectCleanup(ivsA, refA)
      \* body, running branch
      ivsRun == SetInterval(ivsA, s)
      newId == NewTimerId(ivsA)
      beat0 == InitBeat(s.beatIdx)
      \* if (!isPlaying) setDisplayBar(currentBar), on [isPlaying, currentBar]
      dispSync == (barChanged \/ playChanged) /\ ~s.isPlaying
  IN IF RenderThrows(s.displayBar)
     THEN /\ mounted' = FALSE
          /\ intervals' = IF isPlaying
                          THEN EffectCleanup(intervals, schedulerTimerIdRef)
                          ELSE intervals
          /\ schedulerTimerIdRef' = IF isPlaying THEN NoTimer
                                    ELSE schedulerTimerIdRef
          /\ beatRef' = br
          /\ UNCHANGED <<isPlaying, bpm, beatsPerBar, beatIdx, clickVol,
                         currentBar, displayBar, accentMode, anticipation,
                         barRef, nextBeatTimeRef, startClock, sessionK>>
     ELSE /\ isPlaying' = s.isPlaying
          /\ bpm' = s.bpm
          /\ beatsPerBar' = s.beatsPerBar
          /\ clickVol' = s.clickVol
          /\ accentMode' = s.accentMode
          /\ anticipation' = s.anticipation
          /\ currentBar' = s.currentBar
          \* useEffect(() => { barRef.current = currentBar }, [currentBar])
          /\ barRef' = IF barChanged THEN s.currentBar ELSE barRef
          \* the render of the display sync's update throws on a fractional bar
          /\ mounted' = ~(dispSync /\ RenderThrows(s.currentBar))
          /\ displayBar' = IF dispSync /\ ~RenderThrows(s.currentBar)
                           THEN s.currentBar ELSE s.displayBar
          \* scheduler effect
          /\ IF schedChanged /\ s.isPlaying
             THEN /\ beatRef' = beat0
                  /\ beatIdx' = beat0
                  /\ nextBeatTimeRef' = FirstBeatTime(clock)
                  /\ intervals' = ivsRun
                  /\ schedulerTimerIdRef' = newId
                  /\ startClock' = clock
                  /\ sessionK' = 0
             ELSE /\ beatRef' = br
                  /\ beatIdx' = s.beatIdx
                  /\ nextBeatTimeRef' = nextBeatTimeRef
                  /\ intervals' = IF schedChanged THEN ivsStop ELSE ivsA
                  /\ schedulerTimerIdRef' = IF schedChanged THEN NoTimer ELSE refA
                  /\ UNCHANGED <<startClock, sessionK>>

\* --------------------------------------------------------------- schedule()
\* One iteration of the while loop of schedule(), on the loop state d, for the
\* closure cl, with ctx.currentTime = now and barRef.current = bar.
DrainStep(d, cl, now, bar) ==
  LET t == d.next
      curBeat == d.beat
      spb == SecPerBeat(cl.bpm)
      tone == [time |-> t, beat |-> curBeat,
               accent |-> isAccentBeat(curBeat, cl.beatsPerBar, cl.accentMode),
               vol |-> cl.clickVol, k |-> d.k]
      switchAt == t + (spb * OffsetQuarters(cl.anticipation)) \div 4
      timer == IF curBeat = cl.beatsPerBar
               THEN [due |-> now + Max2(0, switchAt - now), bar |-> NextBar(bar)]
               ELSE [due |-> now + Max2(0, (t - now) + Ms(displayEpsilonMs)),
                     bar |-> bar]
      nextBeat == NextBeat(curBeat, cl.beatsPerBar)
  IN [next |-> NextBeatTime(t, spb), beat |-> nextBeat,
      tones |-> Append(d.tones, tone), timers |-> Append(d.timers, timer),
      pbar |-> d.pbar + (IF nextBeat = 1 THEN 1 ELSE 0),
      pbeat |-> curBeat, k |-> d.k + 1]

\* while (nextBeatTimeRef.current < ctx.currentTime + scheduleAheadSec) { ... }
RECURSIVE Drain(_, _, _, _)
Drain(d, cl, now, bar) ==
  IF d.next < now + Ms(scheduleAheadMs)
  THEN Drain(DrainStep(d, cl, now, bar), cl, now, bar)
  ELSE d

\* ------------------------------------------------------- fretboard view
\* useState initial values of the fretboard view
ViewInit ==
  /\ startFret = 0
  /\ endFret = 12
  /\ lefty = FALSE
  /\ keyA = 0
  /\ scaleA = "major"
  /\ chordToneMode = "seventh"
  /\ progressionOn = TRUE
  /\ progressionId = "12-bar Blues (A)"
  /\ progQuality = "dom7"

\* no call under way, nothing returned
NoCall == [fn |-> "none", args |-> <<>>]
NoRet == <<>>

\* ------------------------------------------------------------------- Init
SchedInit ==
  /\ clock = 0
  /\ audioCtxRef = FALSE
  /\ isPlaying = FALSE
  /\ bpm = DefaultBpm
  /\ beatsPerBar = DefaultBeatsPerBar
  /\ beatIdx = 1
  /\ clickVol = DefaultClickVol
  /\ currentBar = Bar(1)
  /\ displayBar = Bar(1)
  /\ accentMode = "downbeat"
  /\ anticipation = "a"
  /\ beatRef = 1
  /\ barRef = Bar(1)
  /\ schedulerTimerIdRef = NoTimer
  /\ nextBeatTimeRef = 0
  /\ intervals = {}
  /\ timeouts = <<>>
  /\ pending = NoPending
  /\ tones = <<>>
  /\ prevTone = NoTone
  /\ startClock = 0
  /\ sessionK = 0
  /\ meterFresh = FALSE
  /\ mounted = TRUE
  /\ ops = 0

Init == SchedInit /\ ViewInit /\ call = NoCall /\ ret = NoRet

\* ------------------------------------------------------------ user actions
\* A user event is handled when React has nothing left to render; its state
\* updates are rendered, and the effects run, before the next event.
UserOp == mounted /\ pending = NoPending /\ ops < MaxOps /\ ops' = ops + 1

Quiet == NoEmit /\ UNCHANGED <<clock, timeouts, pending, viewVars, libVars>>

\* Play button onClick
Play ==
  /\ UserOp
  /\ ~isPlaying
  /\ audioCtxRef' = TRUE
  /\ Commit([ReactState EXCEPT !.isPlaying = TRUE], beatRef)
  /\ Quiet /\ UNCHANGED meterFresh

\* Stop button onClick
Stop ==
  /\ UserOp
  /\ isPlaying
  /\ Commit([ReactState EXCEPT !.isPlaying = FALSE], beatRef)
  /\ Quiet /\ UNCHANGED <<audioCtxRef, meterFresh>>

\* BPM input onChange
SetBpm ==
  \E v \in BpmInputs :
    /\ UserOp
    /\ ClampBpm(v) # bpm
    /\ Commit([ReactState EXCEPT !.bpm = ClampBpm(v)], beatRef)
    /\ Quiet /\ UNCHANGED <<audioCtxRef, meterFresh>>

\* Beats/Bar select onChange
SetBeatsPerBar ==
  \E v \in BeatsPerBarOptions \ {beatsPerBar} :
    /\ UserOp
    /\ Commit([ReactState EXCEPT !.beatsPerBar = v,
                                 !.beatIdx = MeterResetBeat(beatIdx)],
              MeterResetBeat(beatRef))
    /\ meterFresh' = TRUE
    /\ Quiet /\ UNCHANGED audioCtxRef

\* Accent select onChange
SetAccentMode ==
  \E m \in AccentInputs \ {accentMode} :
    /\ UserOp
    /\ Commit([ReactState EXCEPT !.accentMode = m], beatRef)
    /\ Quiet /\ UNCHANGED <<audioCtxRef, meterFresh>>

\* Switch timing select onChange
SetAnticipation ==
  \E a \in AnticipationInputs \ {anticipation} :
    /\ UserOp
    /\ Commit([ReactState EXCEPT !.anticipation = a], beatRef)
    /\ Quiet /\ UNCHANGED <<audioCtxRef, meterFresh>>

\* Click Vol range onChange
SetClickVol ==
  \E v \in ClickVolInputs \ {clickVol} :
    /\ UserOp
    /\ Commit([ReactState EXCEPT !.clickVol = v], beatRef)
    /\ Quiet /\ UNCHANGED <<audioCtxRef, meterFresh>>

\* Bar input onChange
BarInput ==
  \E v \in BarInputs :
    /\ UserOp
    /\ ClampBar(v) # currentBar
    /\ Commit([ReactState EXCEPT !.currentBar = ClampBar(v)], beatRef)
    /\ Quiet /\ UNCHANGED <<audioCtxRef, meterFresh>>

\* Prev button onClick
PrevClick ==
  /\ UserOp
  /\ Commit([ReactState EXCEPT !.currentBar = PrevBar(currentBar)], beatRef)
  /\ Quiet /\ UNCHANGED <<audioCtxRef, meterFresh>>

\* Next button onClick
NextClick ==
  /\ UserOp
  /\ Commit([ReactState EXCEPT !.currentBar = NextBar(currentBar)], beatRef)
  /\ Quiet /\ UNCHANGED <<audioCtxRef, meterFresh>>

\* ProgressionView cell onClick -> onSelectBar(bar)
SelectBar ==
  \E c \in CellInputs :
    /\ UserOp
    /\ Bar(c) # currentBar
    /\ Commit([ReactState EXCEPT !.currentBar = Bar(c)], beatRef)
    /\ Quiet /\ UNCHANGED <<audioCtxRef, meterFresh>>

\* ------------------------------------------------------ timers and renders
\* The audio clock advances. The main thread is never blocked for a whole
\* clock step: a display callback that is due runs before the clock is seen
\* to advance again (after any other event that is ready at that reading).
Tick ==
  \E d \in ClockSteps :
    /\ audioCtxRef
    /\ \A i \in 1..Len(timeouts) : timeouts[i].due > clock
    /\ clock + d <= Ms(MaxClockMs)
    /\ clock' = clock + d
    /\ NoEmit
    /\ UNCHANGED <<audioCtxRef, isPlaying, bpm, beatsPerBar, beatIdx, clickVol,
                   currentBar, displayBar, accentMode, anticipation, beatRef,
                   barRef, schedulerTimerIdRef, nextBeatTimeRef, intervals,
                   timeouts, pending, startClock, sessionK, meterFresh, mounted, ops,
                   viewVars, libVars>>

\* The polling interval fires: one run of schedule().
Poll ==
  \E iv \in intervals :
    LET d0 == [next |-> nextBeatTimeRef, beat |-> beatRef, tones |-> <<>>,
               timers |-> <<>>, pbar |-> pending.bar, pbeat |-> pending.beat,
               k |-> sessionK]
        d == Drain(d0, iv, clock, barRef)
    IN /\ audioCtxRef
       /\ nextBeatTimeRef' = d.next
       /\ beatRef' = d.beat
       /\ timeouts' = timeouts \o d.timers
       /\ pending' = [pending EXCEPT !.bar = d.pbar, !.beat = d.pbeat]
       /\ tones' = d.tones
       /\ prevTone' = LastTone
       /\ sessionK' = d.k
       /\ meterFresh' = (meterFresh /\ d.tones = <<>>)
       /\ UNCHANGED <<clock, audioCtxRef, isPlaying, bpm, beatsPerBar, beatIdx,
                      clickVol, currentBar, displayBar, accentMode, anticipation,
                      barRef, schedulerTimerIdRef, intervals, startClock, mounted, ops,
                      viewVars, libVars>>

\* A deferred display callback fires: setDisplayBar(bar). Timers fire in the
\* order of their due times, and in creation order when those are equal.
FireTimeout ==
  \E i \in 1..Len(timeouts) :
    /\ timeouts[i].due <= clock
    /\ \A j \in 1..Len(timeouts) :
         \/ timeouts[j].due > timeouts[i].due
         \/ (timeouts[j].due = timeouts[i].due /\ j >= i)
    /\ timeouts' = [j \in 1..(Len(timeouts) - 1) |->
                      IF j < i THEN timeouts[j] ELSE timeouts[j + 1]]
    \* a state update on an unmounted component is dropped
    /\ pending' = IF mounted THEN [pending EXCEPT !.disp = timeouts[i].bar]
                  ELSE pending
    /\ NoEmit
    /\ UNCHANGED <<clock, audioCtxRef, isPlaying, bpm, beatsPerBar, beatIdx,
                   clickVol, currentBar, displayBar, accentMode, anticipation,
                   beatRef, barRef, schedulerTimerIdRef, nextBeatTimeRef,
                   intervals, startClock, sessionK, meterFresh, mounted, ops,
                   viewVars, libVars>>

\* React renders the updates queued by timer callbacks: setCurrentBar's
\* functional updates in order, the last setBeatIdx and the last setDisplayBar.
Render ==
  /\ pending # NoPending
  /\ Commit([ReactState EXCEPT
               !.currentBar = ApplyNextBar(currentBar, pending.bar),
               !.beatIdx = IF pending.beat # 0 THEN pending.beat ELSE beatIdx,
               !.displayBar = IF pending.disp # 0 THEN pending.disp ELSE displayBar],
            beatRef)
  /\ pending' = NoPending
  /\ NoEmit
  /\ UNCHANGED <<clock, audioCtxRef, timeouts, meterFresh, ops, viewVars, libVars>>

Next ==
  \/ Play \/ Stop
  \/ SetBpm \/ SetBeatsPerBar \/ SetAccentMode \/ SetAnticipation \/ SetClickVol
  \/ BarInput \/ PrevClick \/ NextClick \/ SelectBar
  \/ Tick \/ Poll \/ FireTimeout \/ Render

Spec == Init /\ [][Next]_vars

\* ------------------------------------------------- the 8-second timing run
\* bpm = 120, beatsPerBar = 4, started at clock 0 and polled, with jitter,
\* until the clock reads 8 s.
RunEnd == Ms(8 * 1000)

InitRun ==
  /\ SchedInit!1 /\ SchedInit!2 /\ SchedInit!3
  /\ bpm = 120
  /\ beatsPerBar = DefaultBeatsPerBar
  /\ beatIdx = 1
  /\ clickVol = DefaultClickVol
  /\ currentBar = Bar(1)
  /\ displayBar = Bar(1)
  /\ accentMode = "downbeat"
  /\ anticipation = "a"
  /\ beatRef = 1
  /\ barRef = Bar(1)
  /\ schedulerTimerIdRef = NoTimer
  /\ nextBeatTimeRef = 0
  /\ intervals = {}
  /\ timeouts = <<>>
  /\ pending = NoPending
  /\ tones = <<>>
  /\ prevTone = NoTone
  /\ startClock = 0
  /\ sessionK = 0
  /\ meterFresh = FALSE
  /\ mounted = TRUE
  /\ ops = 0
  /\ ViewInit
  /\ call = NoCall
  /\ ret = NoRet

\* The audio clock advances by a polling interval plus jitter; in this run the
\* UI keeps up: due display callbacks and queued renders are handled first.
TickRun ==
  \E d \in RunSteps :
    /\ audioCtxRef
    /\ pending = NoPending
    /\ \A i \in 1..Len(timeouts) : timeouts[i].due > clock
    /\ clock + d <= RunEnd
    /\ clock' = clock + d
    /\ NoEmit
    /\ UNCHANGED <<audioCtxRef, isPlaying, bpm, beatsPerBar, beatIdx, clickVol,
                   currentBar, displayBar, accentMode, anticipation, beatRef,
                   barRef, schedulerTimerIdRef, nextBeatTimeRef, intervals,
                   timeouts, pending, startClock, sessionK, meterFresh, mounted, ops,
                   viewVars, libVars>>

NextRun == Play \/ TickRun \/ Poll \/ FireTimeout \/ Render

SpecRun == InitRun /\ [][NextRun]_vars

\* ================================================================ music.ts
\* A text is a sequence of characters; Chars are the characters texts are
\* drawn from: the note letters in both cases, the sharp sign, the minor
\* marker in both cases, a blank and a digit.
MaxTextLen == 3

Chars == {"A", "B", "C", "D", "E", "F", "G", "a", "b", "c", "d", "e", "f", "g",
          "M", "m", "#", " ", "7"}

TextsOfLen(n) == [1..n -> Chars]

\* what a call returned, or the message of the Error it threw
Returned(v) == [value |-> v]
Threw(msg) == [threw |-> msg]

\* String.prototype.toUpperCase, on one character and on a text
UpperChar(c) ==
  CASE c = "a" -> "A" [] c = "b" -> "B" [] c = "c" -> "C" [] c = "d" -> "D"
    [] c = "e" -> "E" [] c = "f" -> "F" [] c = "g" -> "G" [] c = "m" -> "M"
    [] OTHER -> c

toUpperCase(t) == [i \in 1..Len(t) |-> UpperChar(t[i])]

\* String.prototype.trim
RECURSIVE trimStart(_)
trimStart(t) == IF t # <<>> /\ Head(t) = " " THEN trimStart(Tail(t)) ELSE t

RECURSIVE trimEnd(_)
trimEnd(t) ==
  IF t # <<>> /\ t[Len(t)] = " " THEN trimEnd(SubSeq(t, 1, Len(t) - 1)) ELSE t

trim(t) == trimEnd(trimStart(t))

\* .replace(/m$/, ''): the pattern has no i flag
StripMinor(t) ==
  IF t # <<>> /\ t[Len(t)] = "m" THEN SubSeq(t, 1, Len(t) - 1) ELSE t

\* const map in pcOf
NoteMap ==
  {<< <<"C">>, 0 >>, << <<"C", "#">>, 1 >>, << <<"D", "B">>, 1 >>,
   << <<"D">>, 2 >>, << <<"D", "#">>, 3 >>, << <<"E", "B">>, 3 >>,
   << <<"E">>, 4 >>, << <<"F", "B">>, 4 >>, << <<"E", "#">>, 5 >>,
   << <<"F">>, 5 >>, << <<"F", "#">>, 6 >>, << <<"G", "B">>, 6 >>,
   << <<"G">>, 7 >>, << <<"G", "#">>, 8 >>, << <<"A", "B">>, 8 >>,
   << <<"A">>, 9 >>, << <<"A", "#">>, 10 >>, << <<"B", "B">>, 10 >>,
   << <<"B">>, 11 >>, << <<"C", "B">>, 11 >>, << <<"B", "#">>, 0 >>}

NoteKeys == {e[1] : e \in NoteMap}

\* the n of pcOf: name.trim().replace(/m$/,'').toUpperCase()
Normalise(name) == toUpperCase(StripMinor(trim(name)))

\* if (v === undefined) throw new Error('Unknown note: ' + name)
UnknownDefaultsToC(name) == Returned(0)

UnknownNote(name) == Threw(<<"Unknown note: ", name>>)

pcOf(name) ==
  LET n == Normalise(name)
  IN IF n \in NoteKeys
     THEN Returned((CHOOSE e \in NoteMap : e[1] = n)[2] % 12)
     ELSE UnknownNote(name)

\* const SHARP, const FLAT, const FLAT_KEYS
SHARP == << <<"C">>, <<"C", "#">>, <<"D">>, <<"D", "#">>, <<"E">>, <<"F">>,
            <<"F", "#">>, <<"G">>, <<"G", "#">>, <<"A">>, <<"A", "#">>, <<"B">> >>

FLAT == << <<"C">>, <<"D", "b">>, <<"D">>, <<"E", "b">>, <<"E">>, <<"F">>,
           <<"G", "b">>, <<"G">>, <<"A", "b">>, <<"A">>, <<"B", "b">>, <<"B">> >>

FLAT_KEYS ==
  {<<"F">>, <<"B", "b">>, <<"E", "b">>, <<"A", "b">>, <<"D", "b">>,
   <<"G", "b">>, <<"C", "b">>, <<"D", "m">>, <<"G", "m">>, <<"C", "m">>,
   <<"F", "m">>, <<"B", "b", "m">>, <<"E", "b", "m">>, <<"A", "b", "m">>}

pcNameOffByOne(pc, keyHint) ==
  (IF keyHint \in FLAT_KEYS THEN FLAT ELSE SHARP)[((pc + 1) % 12) + 1]

pcName(pc, keyHint) == (IF keyHint \in FLAT_KEYS THEN FLAT ELSE SHARP)[pc + 1]

\* degreeLabel(tonic, note, preferSharps)
degreeLabelFlatSix(tonic, note, preferSharps) ==
  LET s == (note - tonic + 12) % 12
  IN <<"R", IF preferSharps THEN "#1" ELSE "b2", "2", "b3", "3", "4",
       IF preferSharps THEN "#4" ELSE "b5", "5", "b6", "6", "b7", "7">>[s + 1]

degreeLabel(tonic, note, preferSharps) ==
  LET s == (note - tonic + 12) % 12
  IN <<"R", IF preferSharps THEN "#1" ELSE "b2", "2", "b3", "3", "4",
       IF preferSharps THEN "#4" ELSE "b5", "5",
       IF preferSharps THEN "#5" ELSE "b6", "6", "b7", "7">>[s + 1]

\* export const standardTuning
standardTuning == << <<"E">>, <<"A">>, <<"D">>, <<"G">>, <<"B">>, <<"E">> >>

\* The % of JavaScript: the result has the sign of the dividend.
JsRem(a, n) == IF a >= 0 THEN a % n ELSE 0 - ((0 - a) % n)

\* opts.tuning.map(pcOf): the open pitch classes, or the first Error thrown
RECURSIVE MapPcOf(_, _)
MapPcOf(tuning, done) ==
  IF Len(done) = Len(tuning) THEN Returned(done)
  ELSE LET r == pcOf(tuning[Len(done) + 1])
       IN IF "threw" \in DOMAIN r THEN r
          ELSE MapPcOf(tuning, Append(done, r.value))

\* The body of the inner loop of buildNotes: the record pushed for string s
\* and fret f. x and y are in half cells (x = 1 stands for 0.5).
GridNote(openPCs, s, f, o) ==
  LET pc == JsRem(openPCs[s + 1] + f, 12)
      visualRow == Len(o.tuning) - 1 - s
  IN [x |-> 2 * (f - o.startFret) + 1,
      y |-> 2 * visualRow + 1,
      pc |-> pc,
      isScale |-> pc \in o.filter,
      isChordTone |-> pc \in o.chordTones]

\* for (let f = opts.startFret; f <= opts.endFret; f++): the records pushed
\* for string s from fret f on, in the order they are pushed
RECURSIVE FretLoopShort(_, _, _, _)
FretLoopShort(openPCs, s, f, o) ==
  IF f < o.endFret
  THEN <<GridNote(openPCs, s, f, o)>> \o FretLoopShort(openPCs, s, f + 1, o)
  ELSE <<>>

RECURSIVE FretLoop(_, _, _, _)
FretLoop(openPCs, s, f, o) ==
  IF f <= o.endFret
  THEN <<GridNote(openPCs, s, f, o)>> \o FretLoop(openPCs, s, f + 1, o)
  ELSE <<>>

\* for (let s = 0; s < strings; s++): the records pushed from string s on
RECURSIVE StringLoop(_, _, _)
StringLoop(openPCs, s, o) ==
  IF s < Len(o.tuning)
  THEN FretLoop(openPCs, s, o.startFret, o) \o StringLoop(openPCs, s + 1, o)
  ELSE <<>>

\* if (opts.lefty) notes.forEach(n => n.x = (maxX - n.x))
MirrorBoth(notes, o) ==
  LET maxX == (o.endFret - o.startFret) + 1
      maxY == Len(o.tuning)
  IN [i \in 1..Len(notes) |->
        [notes[i] EXCEPT !.x = 2 * maxX - notes[i].x, !.y = 2 * maxY - notes[i].y]]

Mirror(notes, o) ==
  LET maxX == (o.endFret - o.startFret) + 1
  IN [i \in 1..Len(notes) |-> [notes[i] EXCEPT !.x = 2 * maxX - notes[i].x]]

buildNotes(o) ==
  LET open == MapPcOf(o.tuning, <<>>)
  IN IF "threw" \in DOMAIN open THEN open
     ELSE LET notes == StringLoop(open.value, 0, o)
          IN Returned(IF o.lefty THEN Mirror(notes, o) ELSE notes)

\* ------------------------------------------------ App.tsx: chord-tone sets
\* Set.prototype.add on a Set kept in insertion order
SetAdd(deg, n) == IF \E i \in 1..Len(deg) : deg[i] = n THEN deg ELSE Append(deg, n)

ChordToneModes == {"off", "triad", "seventh", "extended"}

\* buildChordDegrees(intervals, mode): Array.from(deg), in insertion order
buildChordDegreesDropSeventh(ints, mode) ==
  LET has(n) == n \in ints
      root == <<0>>
      third == IF has(4) THEN SetAdd(root, 4)
               ELSE IF has(3) THEN SetAdd(root, 3) ELSE root
      triad == IF has(7) THEN SetAdd(third, 7)
               ELSE IF has(6) THEN SetAdd(third, 6) ELSE third
      seventh == IF mode # "seventh" THEN triad
                 ELSE IF has(10) THEN SetAdd(triad, 10)
                 ELSE IF has(11) THEN SetAdd(triad, 11) ELSE triad
      ninth == IF has(2) THEN SetAdd(seventh, 2) ELSE seventh
      eleventh == IF has(5) THEN SetAdd(ninth, 5) ELSE ninth
      extended == IF has(9) THEN SetAdd(eleventh, 9) ELSE eleventh
  IN CASE mode = "off" -> <<>>
       [] mode = "triad" -> triad
       [] mode = "seventh" -> seventh
       [] OTHER -> extended

buildChordDegreesMajorSeventhFirst(ints, mode) ==
  LET has(n) == n \in ints
      root == <<0>>
      third == IF has(4) THEN SetAdd(root, 4)
               ELSE IF has(3) THEN SetAdd(root, 3) ELSE root
      triad == IF has(7) THEN SetAdd(third, 7)
               ELSE IF has(6) THEN SetAdd(third, 6) ELSE third
      seventh == IF has(11) THEN SetAdd(triad, 11)
                 ELSE IF has(10) THEN SetAdd(triad, 10) ELSE triad
      ninth == IF has(2) THEN SetAdd(seventh, 2) ELSE seventh
      eleventh == IF has(5) THEN SetAdd(ninth, 5) ELSE ninth
      extended == IF has(9) THEN SetAdd(eleventh, 9) ELSE eleventh
  IN CASE mode = "off" -> <<>>
       [] mode = "triad" -> triad
       [] mode = "seventh" -> seventh
       [] OTHER -> extended

buildChordDegreesAlwaysFifth(ints, mode) ==
  LET has(n) == n \in ints
      root == <<0>>
      third == IF has(4) THEN SetAdd(root, 4)
               ELSE IF has(3) THEN SetAdd(root, 3) ELSE root
      triad == SetAdd(third, 7)
      seventh == IF has(10) THEN SetAdd(triad, 10)
                 ELSE IF has(11) THEN SetAdd(triad, 11) ELSE triad
      ninth == IF has(2) THEN SetAdd(seventh, 2) ELSE seventh
      eleventh == IF has(5) THEN SetAdd(ninth, 5) ELSE ninth
      extended == IF has(9) THEN SetAdd(eleventh, 9) ELSE eleventh
  IN CASE mode = "off" -> <<>>
       [] mode = "triad" -> triad
       [] mode = "seventh" -> seventh
       [] OTHER -> extended

buildChordDegrees(ints, mode) ==
  LET has(n) == n \in ints
      root == <<0>>
      third == IF has(4) THEN SetAdd(root, 4)
               ELSE IF has(3) THEN SetAdd(root, 3) ELSE root
      triad == IF has(7) THEN SetAdd(third, 7)
               ELSE IF has(6) THEN SetAdd(third, 6) ELSE third
      seventh == IF has(10) THEN SetAdd(triad, 10)
                 ELSE IF has(11) THEN SetAdd(triad, 11) ELSE triad
      ninth == IF has(2) THEN SetAdd(seventh, 2) ELSE seventh
      eleventh == IF has(5) THEN SetAdd(ninth, 5) ELSE ninth
      extended == IF has(9) THEN SetAdd(eleventh, 9) ELSE eleventh
  IN CASE mode = "off" -> <<>>
       [] mode = "triad" -> triad
       [] mode = "seventh" -> seventh
       [] OTHER -> extended

\* pcFromNameUnsafe(name): the match of /^([A-Ga-g])([#b]?)/ on name.trim()
RootLetters == {"A", "B", "C", "D", "E", "F", "G", "a", "b", "c", "d", "e", "f", "g"}

BaseOf(letter) ==
  CASE letter = "C" -> 0 [] letter = "D" -> 2 [] letter = "E" -> 4
    [] letter = "F" -> 5 [] letter = "G" -> 7 [] letter = "A" -> 9
    [] letter = "B" -> 11

pcFromNameUnsafeNoWrap(name) ==
  LET t == trim(name)
  IN IF t = <<>> \/ Head(t) \notin RootLetters THEN Returned(0)
     ELSE LET base == BaseOf(UpperChar(t[1]))
              m2 == IF Len(t) >= 2 /\ t[2] \in {"#", "b"} THEN t[2] ELSE ""
              acc == IF m2 = "#" THEN 1 ELSE IF m2 = "b" THEN 0 - 1 ELSE 0
          IN Returned(JsRem(base + acc, 12))

pcFromNameUnsafe(name) ==
  LET t == trim(name)
  IN IF t = <<>> \/ Head(t) \notin RootLetters THEN Returned(0)
     ELSE LET base == BaseOf(UpperChar(t[1]))
              m2 == IF Len(t) >= 2 /\ t[2] \in {"#", "b"} THEN t[2] ELSE ""
              acc == IF m2 = "#" THEN 1 ELSE IF m2 = "b" THEN 0 - 1 ELSE 0
          IN Returned(JsRem(base + acc + 12, 12))

\* chordDegreesFor(quality)
chordDegreesFor(quality) ==
  IF quality = "triad" THEN <<0, 4, 7>> ELSE <<0, 4, 7, 10>>

\* new Set(rel.map(d => (d + tonic) % 12))
TransposeSet(rel, tonic) == {(rel[i] + tonic) % 12 : i \in 1..Len(rel)}

\* scaleSetA for a scale's intervals and tonicA:
\* new Set(ints.map(i => (i + tonicA) % 12))
ScaleSetOf(ints, tonic) == {JsRem(i + tonic, 12) : i \in ints}

\* chordSetA for a scale's intervals, a chord-tone mode and tonicA
ChordSetOf(ints, mode, tonic) ==
  TransposeSet(buildChordDegrees(ints, mode), tonic)

\* --------------------------------------------------------------- test.js
\* The for loop of stableUnique from index i on: seen is the Set, out the
\* array built so far (arrays are 1-based here).
RECURSIVE UniqueLoop(_, _, _, _)
UniqueLoop(arr, i, seen, out) ==
  IF i > Len(arr) THEN out
  ELSE IF arr[i] \in seen THEN UniqueLoop(arr, i + 1, seen, out)
       ELSE UniqueLoop(arr, i + 1, seen \cup {arr[i]}, Append(out, arr[i]))

\* stableUnique(arr): the array returned, whether it is a new array object,
\* and arr as the call leaves it
stableUniqueShortCut(arr) ==
  IF Len(arr) <= 2 THEN Returned([out |-> arr, isNew |-> TRUE, arr |-> arr])
  ELSE Returned([out |-> UniqueLoop(arr, 1, {}, <<>>), isNew |-> TRUE, arr |-> arr])

stableUnique(arr) ==
  IF Len(arr) <= 1 THEN Returned([out |-> arr, isNew |-> TRUE, arr |-> arr])
  ELSE Returned([out |-> UniqueLoop(arr, 1, {}, <<>>), isNew |-> TRUE, arr |-> arr])

\* ------------------------------------------------- calls of the functions
\* String.prototype.toLowerCase, used to form the inputs of pcOf
LowerChar(c) ==
  CASE c = "A" -> "a" [] c = "B" -> "b" [] c = "C" -> "c" [] c = "D" -> "d"
    [] c = "E" -> "e" [] c = "F" -> "f" [] c = "G" -> "g" [] c = "M" -> "m"
    [] OTHER -> c

toLowerCase(t) == [i \in 1..Len(t) |-> LowerChar(t[i])]

PCs == 0..11

\* pcOf called on a text, on its upper-case form and on its lower-case form
PcOfArgs(t) == [fn |-> "pcOf", args |-> <<t, toUpperCase(t), toLowerCase(t)>>]

\* pcOf, pcName with key hint 'C', and pcOf again, on a name of the table
\* (the keys of the map, and the spellings pcName itself produces)
RoundTripNames ==
  NoteKeys \cup {SHARP[i] : i \in 1..12} \cup {FLAT[i] : i \in 1..12}

RoundTripArgs(n) == [fn |-> "roundTrip", args |-> <<n>>]

\* degreeLabel with preferSharps true and false
DegreeLabelArgs(t, n) == [fn |-> "degreeLabel", args |-> <<t, n>>]

\* buildNotes right-handed and left-handed, on tunings of up to MaxStrings
\* names (valid spellings and unknown ones) and on the standard tuning, for
\* the fret windows 0 <= startFret < endFret <= MaxFret and the window [0,12]
MaxStrings == 2
MaxFret == 3

TuningNames == {<<"E">>, <<"b", "b">>, <<"A", "m">>, <<"A", "M">>, <<"7">>}

Tunings ==
  {standardTuning} \cup UNION {[1..n -> TuningNames] : n \in 0..MaxStrings}

FretWindows ==
  {<<0, 12>>} \cup {w \in (0..MaxFret) \X (0..MaxFret) : w[1] < w[2]}

ScaleFilters == {{}, {0, 2, 4, 5, 7, 9, 11}}

ChordToneSets == {{}, {9, 1, 4, 7}}

BuildNotesOpts(t, w, f, c, l) ==
  [tuning |-> t, startFret |-> w[1], endFret |-> w[2], lefty |-> l,
   filter |-> f, chordTones |-> c]

BuildNotesArgs(t, w, f, c) ==
  [fn |-> "buildNotes",
   args |-> <<BuildNotesOpts(t, w, f, c, FALSE), BuildNotesOpts(t, w, f, c, TRUE)>>]

\* the chord-tone set of a scale (any interval set with the root) and a
\* tonic, in the modes triad, seventh, extended and off
ChordSetArgs(x, t) ==
  LET iv == {0} \cup x
  IN [fn |-> "chordSet",
      args |-> <<<<iv, "triad", t>>, <<iv, "seventh", t>>, <<iv, "extended", t>>,
                 <<iv, "off", t>>>>]

\* pcFromNameUnsafe on a text
RootArgs(t) == [fn |-> "pcFromNameUnsafe", args |-> <<t>>]

\* stableUnique on an array of up to MaxArrayLen values
MaxArrayLen == 4

ArrayValues == {"a", "b", "c"}

StableUniqueArgs(a) == [fn |-> "stableUnique", args |-> <<a>>]

\* isAccentBeat(beat, beatsPerBar, accentMode) for the beats 1..beatsPerBar of
\* one bar, in order, as schedule() asks for them
AccentArgs(bpb, mode) == [fn |-> "isAccentBeat", args |-> <<bpb, mode>>]

InitLib ==
  /\ SchedInit /\ ViewInit
  /\ ret = NoRet
  /\ \/ \E n \in 0..MaxTextLen : \E t \in TextsOfLen(n) : call = PcOfArgs(t)
     \/ \E n \in 0..MaxTextLen : \E t \in TextsOfLen(n) : call = RootArgs(t)
     \/ \E n \in RoundTripNames : call = RoundTripArgs(n)
     \/ \E t \in PCs, n \in PCs : call = DegreeLabelArgs(t, n)
     \/ \E t \in Tunings, w \in FretWindows, f \in ScaleFilters, c \in ChordToneSets :
          call = BuildNotesArgs(t, w, f, c)
     \/ \E x \in SUBSET (1..11), t \in PCs : call = ChordSetArgs(x, t)
     \/ \E b \in BeatsPerBarOptions, m \in AccentModes : call = AccentArgs(b, m)
     \/ \E n \in 0..MaxArrayLen : \E a \in [1..n -> ArrayValues] :
          call = StableUniqueArgs(a)

\* the next call of pcOf
PcOfCall ==
  /\ call.fn = "pcOf"
  /\ Len(ret) < Len(call.args)
  /\ ret' = Append(ret, pcOf(call.args[Len(ret) + 1]))
  /\ UNCHANGED <<schedVars, viewVars, call>>

\* pcOf(pcName(pcOf(N), 'C'))
RoundTripCall ==
  /\ call.fn = "roundTrip"
  /\ ret = NoRet
  /\ LET first == pcOf(call.args[1])
         name == pcName(first.value, <<"C">>)
     IN ret' = <<first, Returned(name), pcOf(name)>>
  /\ UNCHANGED <<schedVars, viewVars, call>>

\* degreeLabel(tonic, note, true) and degreeLabel(tonic, note, false)
DegreeLabelCall ==
  /\ call.fn = "degreeLabel"
  /\ ret = NoRet
  /\ ret' = <<Returned(degreeLabel(call.args[1], call.args[2], TRUE)),
              Returned(degreeLabel(call.args[1], call.args[2], FALSE))>>
  /\ UNCHANGED <<schedVars, viewVars, call>>

\* the next call of buildNotes
BuildNotesCall ==
  /\ call.fn = "buildNotes"
  /\ Len(ret) < Len(call.args)
  /\ ret' = Append(ret, buildNotes(call.args[Len(ret) + 1]))
  /\ UNCHANGED <<schedVars, viewVars, call>>

\* the next chord-tone set
ChordSetCall ==
  /\ call.fn = "chordSet"
  /\ Len(ret) < Len(call.args)
  /\ LET a == call.args[Len(ret) + 1]
     IN ret' = Append(ret, Returned(ChordSetOf(a[1], a[2], a[3])))
  /\ UNCHANGED <<schedVars, viewVars, call>>

\* the scale set of the same scale and tonic, after the chord-tone sets
ScaleSetCall ==
  /\ call.fn = "chordSet"
  /\ Len(ret) = Len(call.args)
  /\ ret' = Append(ret, Returned(ScaleSetOf(call.args[1][1], call.args[1][3])))
  /\ UNCHANGED <<schedVars, viewVars, call>>

\* the next beat of the bar
AccentCall ==
  /\ call.fn = "isAccentBeat"
  /\ Len(ret) < call.args[1]
  /\ ret' = Append(ret, Returned(isAccentBeat(Len(ret) + 1, call.args[1], call.args[2])))
  /\ UNCHANGED <<schedVars, viewVars, call>>

\* pcFromNameUnsafe(name)
RootCall ==
  /\ call.fn = "pcFromNameUnsafe"
  /\ ret = NoRet
  /\ ret' = <<pcFromNameUnsafe(call.args[1])>>
  /\ UNCHANGED <<schedVars, viewVars, call>>

\* stableUnique(arr)
StableUniqueCall ==
  /\ call.fn = "stableUnique"
  /\ ret = NoRet
  /\ ret' = <<stableUnique(call.args[1])>>
  /\ UNCHANGED <<schedVars, viewVars, call>>

NextLib ==
  \/ PcOfCall \/ RoundTripCall \/ DegreeLabelCall \/ BuildNotesCall
  \/ ChordSetCall \/ ScaleSetCall \/ RootCall \/ StableUniqueCall
  \/ AccentCall

SpecLib == InitLib /\ [][NextLib]_vars

\* ==================================================== App.tsx: the view
\* const SCALES: the intervals of each scale id
SCALES ==
  [major |-> <<0, 2, 4, 5, 7, 9, 11>>,
   dorian |-> <<0, 2, 3, 5, 7, 9, 10>>,
   phrygian |-> <<0, 1, 3, 5, 7, 8, 10>>,
   lydian |-> <<0, 2, 4, 6, 7, 9, 11>>,
   mixolydian |-> <<0, 2, 4, 5, 7, 9, 10>>,
   naturalMinor |-> <<0, 2, 3, 5, 7, 8, 10>>,
   locrian |-> <<0, 1, 3, 5, 6, 8, 10>>,
   majorPent |-> <<0, 2, 4, 7, 9>>,
   minorPent |-> <<0, 3, 5, 7, 10>>,
   bluesHex |-> <<0, 3, 5, 6, 7, 10>>,
   harmonicMinor |-> <<0, 2, 3, 5, 7, 8, 11>>,
   melodicMinor |-> <<0, 2, 3, 5, 7, 9, 11>>,
   wholeTone |-> <<0, 2, 4, 6, 8, 10>>,
   dimHalfWhole |-> <<0, 1, 3, 4, 6, 7, 9, 10>>,
   dimWholeHalf |-> <<0, 2, 3, 5, 6, 8, 9, 11>>]

\* const PROGRESSIONS: the chord names of each preset, bar by bar
PROGRESSIONS ==
  [p \in {"12-bar Blues (A)", "12-bar Blues (E)", "Jazz Blues (Bb)"} |->
     CASE p = "12-bar Blues (A)" ->
            << <<"A">>, <<"D">>, <<"A">>, <<"A">>, <<"D">>, <<"D">>,
               <<"A">>, <<"A">>, <<"E">>, <<"D">>, <<"E">>, <<"A">> >>
       [] p = "12-bar Blues (E)" ->
            << <<"E">>, <<"A">>, <<"E">>, <<"E">>, <<"A">>, <<"A">>,
               <<"E">>, <<"E">>, <<"B">>, <<"A">>, <<"B">>, <<"E">> >>
       [] p = "Jazz Blues (Bb)" ->
            << <<"B", "b", "7">>, <<"E", "b", "7">>, <<"B", "b", "7">>,
               <<"B", "b", "7">>, <<"E", "b", "7">>, <<"E", "d", "i", "m">>,
               <<"B", "b", "7">>, <<"G", "7">>, <<"C", "7">>, <<"F", "7">>,
               <<"B", "b", "7">>, <<"F", "7">> >>]

ChordQualities == {"triad", "dom7"}

\* the range of a sequence
Range(q) == {q[i] : i \in 1..Len(q)}

\* const tonicA = (keyA % 12) as PC
tonicA == JsRem(keyA, 12)

\* scaleSetA: new Set(ints.map(i => (i + tonicA) % 12))
scaleSetA == ScaleSetOf(Range(SCALES[scaleA]), tonicA)

\* chordSetA
chordSetA == ChordSetOf(Range(SCALES[scaleA]), chordToneMode, tonicA)

\* currentChordName: progression[(displayBar - 1 + 12) % 12], of a whole bar
currentChordName ==
  PROGRESSIONS[progressionId][(((displayBar \div BarUnit) - 1 + 12) % 12) + 1]

\* currentChordRoot: pcFromNameUnsafe(currentChordName) % 12
currentChordRoot == JsRem(pcFromNameUnsafe(currentChordName).value, 12)

\* chordSetBar: new Set(rel.map(d => (d + currentChordRoot) % 12))
chordSetBarNoWrap == {d + currentChordRoot : d \in Range(chordDegreesFor(progQuality))}

chordSetBar == TransposeSet(chordDegreesFor(progQuality), currentChordRoot)

\* baseNotes
baseNotes ==
  buildNotes([tuning |-> standardTuning, startFret |-> startFret,
              endFret |-> endFret, lefty |-> lefty, filter |-> scaleSetA,
              chordTones |-> IF progressionOn THEN chordSetBar ELSE chordSetA])

\* what the user enters: three of the twelve keys, three of the fifteen
\* scales, and fret numbers on both sides of 0
KeyInputs == {0, 7, 11}
ScaleInputs == {"major", "bluesHex", "wholeTone"}
FretInputs == {0 - 3, 0, 2}

\* The idle application at any bar 1..12 (Next clicked bar - 1 times).
InitView ==
  /\ \E b \in 1..BarCount :
       currentBar = Bar(b) /\ displayBar = Bar(b) /\ barRef = Bar(b)
  /\ clock = 0
  /\ audioCtxRef = FALSE
  /\ isPlaying = FALSE
  /\ bpm = DefaultBpm
  /\ beatsPerBar = DefaultBeatsPerBar
  /\ beatIdx = 1
  /\ clickVol = DefaultClickVol
  /\ accentMode = "downbeat"
  /\ anticipation = "a"
  /\ beatRef = 1
  /\ schedulerTimerIdRef = NoTimer
  /\ nextBeatTimeRef = 0
  /\ intervals = {}
  /\ timeouts = <<>>
  /\ pending = NoPending
  /\ tones = <<>>
  /\ prevTone = NoTone
  /\ startClock = 0
  /\ sessionK = 0
  /\ meterFresh = FALSE
  /\ mounted = TRUE
  /\ ops = 0
  /\ ViewInit
  /\ call = NoCall
  /\ ret = NoRet

\* Key select onChange: setKeyA(Number(e.target.value))
SetKeyA ==
  \E v \in KeyInputs \ {keyA} :
    /\ keyA' = v
    /\ UNCHANGED <<schedVars, libVars, startFret, endFret, lefty, scaleA,
                   chordToneMode, progressionOn, progressionId, progQuality>>

\* Scale select onChange
SetScaleA ==
  \E v \in ScaleInputs \ {scaleA} :
    /\ scaleA' = v
    /\ UNCHANGED <<schedVars, libVars, startFret, endFret, lefty, keyA,
                   chordToneMode, progressionOn, progressionId, progQuality>>

\* Chord Tones select onChange
SetChordToneMode ==
  \E v \in ChordToneModes \ {chordToneMode} :
    /\ chordToneMode' = v
    /\ UNCHANGED <<schedVars, libVars, startFret, endFret, lefty, keyA,
                   scaleA, progressionOn, progressionId, progQuality>>

\* Start input onChange: setStartFret(Math.min(+e.target.value, endFret-1))
SetStartFret ==
  \E v \in FretInputs :
    /\ Min2(v, endFret - 1) # startFret
    /\ startFret' = Min2(v, endFret - 1)
    /\ UNCHANGED <<schedVars, libVars, endFret, lefty, keyA, scaleA,
                   chordToneMode, progressionOn, progressionId, progQuality>>

\* End input onChange: setEndFret(Math.max(+e.target.value, startFret+1))
SetEndFret ==
  \E v \in FretInputs :
    /\ Max2(v, startFret + 1) # endFret
    /\ endFret' = Max2(v, startFret + 1)
    /\ UNCHANGED <<schedVars, libVars, startFret, lefty, keyA, scaleA,
                   chordToneMode, progressionOn, progressionId, progQuality>>

\* Left-handed checkbox onChange
SetLefty ==
  /\ lefty' = ~lefty
  /\ UNCHANGED <<schedVars, libVars, startFret, endFret, keyA, scaleA,
                 chordToneMode, progressionOn, progressionId, progQuality>>

\* progression checkbox onChange
SetProgressionOn ==
  /\ progressionOn' = ~progressionOn
  /\ UNCHANGED <<schedVars, libVars, startFret, endFret, lefty, keyA, scaleA,
                 chordToneMode, progressionId, progQuality>>

\* progression preset select onChange
SetProgressionId ==
  \E v \in (DOMAIN PROGRESSIONS) \ {progressionId} :
    /\ progressionId' = v
    /\ UNCHANGED <<schedVars, libVars, startFret, endFret, lefty, keyA, scaleA,
                   chordToneMode, progressionOn, progQuality>>

\* chord quality select onChange
SetProgQuality ==
  \E v \in ChordQualities \ {progQuality} :
    /\ progQuality' = v
    /\ UNCHANGED <<schedVars, libVars, startFret, endFret, lefty, keyA, scaleA,
                   chordToneMode, progressionOn, progressionId>>

NextView ==
  \/ SetKeyA \/ SetScaleA \/ SetChordToneMode
  \/ SetStartFret \/ SetEndFret \/ SetLefty
  \/ SetProgressionOn \/ SetProgressionId \/ SetProgQuality

SpecView == InitView /\ [][NextView]_vars

\* ============================================= one pass of schedule()
\* One run of schedule(), one iteration of its while loop at a time, for a
\* closure whose bpm is any number (zero and negative included), a reading of
\* ctx.currentTime and a value of nextBeatTimeRef.current.
PassBpms == {0 - 60, 0, 1, 90, 240}
PassClocks == {0, Ms(lookaheadMs), Ms(MaxClockMs \div 2), Ms(MaxClockMs)}
PassNextTimes(now) ==
  {FirstBeatTime(0), now + Ms(scheduleAheadMs) - 1, now + Ms(scheduleAheadMs)}

PassArgs(b, now, next) == [fn |-> "schedule", args |-> <<b, now, next>>]

\* the values schedule() closes over
Closure(b) ==
  [bpm |-> b, beatsPerBar |-> beatsPerBar, accentMode |-> accentMode,
   anticipation |-> anticipation, clickVol |-> clickVol]

\* the refs as schedule() finds them
PassEntry ==
  [next |-> call.args[3], beat |-> beatRef, tones |-> <<>>, timers |-> <<>>,
   pbar |-> 0, pbeat |-> 0, k |-> 0]

\* ctx.currentTime + scheduleAheadSec
PassHorizon == call.args[2] + Ms(scheduleAheadMs)

InLoop == call.fn = "schedule" /\ Len(ret) = 1 /\ "loop" \in DOMAIN ret[1]

PassReturned == call.fn = "schedule" /\ Len(ret) = 1 /\ "value" \in DOMAIN ret[1]

InitPass ==
  /\ SchedInit /\ ViewInit
  /\ ret = NoRet
  /\ \E b \in PassBpms, now \in PassClocks :
       \E next \in PassNextTimes(now) : call = PassArgs(b, now, next)

\* schedule() is entered
PassEnter ==
  /\ call.fn = "schedule"
  /\ ret = NoRet
  /\ ret' = <<[loop |-> PassEntry]>>
  /\ UNCHANGED <<schedVars, viewVars, call>>

\* the loop condition holds: one run of the loop body
PassIterate ==
  /\ InLoop
  /\ ret[1].loop.next < PassHorizon
  /\ ret' = <<[loop |-> DrainStep(ret[1].loop, Closure(call.args[1]),
                                  call.args[2], barRef)]>>
  /\ UNCHANGED <<schedVars, viewVars, call>>

\* the loop condition fails: schedule() returns
PassReturn ==
  /\ InLoop
  /\ ~(ret[1].loop.next < PassHorizon)
  /\ ret' = <<Returned(ret[1].loop)>>
  /\ UNCHANGED <<schedVars, viewVars, call>>

NextPass == PassEnter \/ PassIterate \/ PassReturn

\* A timer callback runs to completion: JavaScript does not preempt it.
SpecPass == InitPass /\ [][NextPass]_vars /\ WF_vars(NextPass)

\* ================================================================= claims

\* The tone events of the last step, preceded by the one handed over before.
Window == (IF prevTone = NoTone THEN <<>> ELSE <<prevTone>>) \o tones

\* The value currentBar has once the queued functional updates are applied.
LogicalBar == ApplyNextBar(currentBar, pending.bar)

\* A polling pass has run at the clock's current reading.
PolledNow == isPlaying /\ nextBeatTimeRef >= clock + Ms(scheduleAheadMs)

\* C1: within one Running session with unchanged settings the k-th tone event
\* is scheduled at startClock + 50 ms + k * (60/bpm) s, whenever the polling
\* pass that hands it over runs.
C1_ToneTimes ==
  \A i \in 1..Len(tones) :
    tones[i].time = startClock + Ms(50) + tones[i].k * SecPerBeat(bpm)

\* C1 witness: a pass that ran late hands over several events at once, the
\* third of the session among them, some of them already in the past.
C1_Witness ==
  /\ Len(tones) >= 2
  /\ tones[1].time < clock
  /\ \E i \in 1..Len(tones) : tones[i].k >= 2

\* C2 (as stated): polled until clock time 8 s, the run has emitted exactly 16
\* tone events, at 0.05, 0.55, 1.05, ... s.
C2_Sixteen ==
  /\ \A i \in 1..Len(tones) : tones[i].time = Ms(50) + tones[i].k * Ms(500)
  /\ (PolledNow /\ clock = RunEnd) => sessionK = 16

\* C2 (amended): every tone event is at 0.05 s + k * 0.5 s, each exactly 0.5 s
\* after the previous one; once polled at clock time 8 s exactly 17 events
\* have been handed over, of which exactly 16 are scheduled before 8 s (the
\* 17th, at 8.05 s, lies inside the 100 ms lookahead horizon).
C2_TimingRun ==
  /\ \A i \in 1..Len(tones) : tones[i].time = Ms(50) + tones[i].k * Ms(500)
  /\ \A i \in 1..(Len(Window) - 1) : Window[i + 1].time = Window[i].time + Ms(500)
  /\ (PolledNow /\ clock = RunEnd) =>
       /\ sessionK = 17
       /\ LastTone.k = 16
       /\ LastTone.time = Ms(8050)
       /\ Cardinality({k \in 0..(sessionK - 1) : Ms(50) + k * Ms(500) < RunEnd}) = 16

\* C2 witness: the run has been polled at clock time 8 s.
C2_Witness == PolledNow /\ clock = RunEnd /\ sessionK > 0

\* C3: the scheduled start times of the tone events, in the order they are
\* handed to the tone backend, are strictly increasing.
C3_StrictlyIncreasing ==
  \A i \in 1..(Len(Window) - 1) : Window[i].time < Window[i + 1].time

\* C4: every scheduler-driven change of currentBar goes from b to
\* (b mod 12) + 1, once for every tone event that is the last beat of its bar,
\* and currentBar is a bar number 1..12 in the order 1, 2, ..., 12, 1.
BarAfter(b) == (b % Bar(BarCount)) + Bar(1)

RECURSIVE BarAfterN(_, _)
BarAfterN(b, n) == IF n = 0 THEN b ELSE BarAfterN(BarAfter(b), n - 1)

LastBeats(ts, bpb) == Cardinality({i \in 1..Len(ts) : ts[i].beat = bpb})

C4_BarAdvance ==
  [][tones' # <<>> =>
       LogicalBar' = BarAfterN(LogicalBar, LastBeats(tones', beatsPerBar))]_vars

\* C5: currentBar and displayBar are integers in [1,12] in every reachable
\* state of the mounted application.
IsBarNumber(b) == b % BarUnit = 0 /\ Bar(1) <= b /\ b <= Bar(BarCount)

C5_BarsInRange == mounted => (IsBarNumber(currentBar) /\ IsBarNumber(displayBar))

\* C6: while stopped no tone event and no deferred display callback is
\* scheduled, and stop itself cancels none of those already scheduled.
C6_StopQuiesces ==
  [][/\ ~isPlaying' => (tones' = <<>> /\ Len(timeouts') <= Len(timeouts))
     /\ (isPlaying /\ ~isPlaying') => (timeouts' = timeouts /\ prevTone' = LastTone)]_vars

\* C6 witness: stopped, with a tone handed over for a time still ahead and
\* deferred display callbacks still pending.
C6_Witness ==
  /\ ~isPlaying
  /\ timeouts # <<>>
  /\ LastTone # NoTone
  /\ LastTone.time > clock

\* C7: stop leaves currentBar and the beat counter unchanged and the following
\* start resumes from exactly those values.
C7_ResumeWhereStopped ==
  [][/\ (isPlaying /\ ~isPlaying') => (beatRef' = beatRef /\ currentBar' = currentBar)
     /\ (~isPlaying /\ isPlaying') => (beatRef' = beatRef /\ currentBar' = currentBar)]_vars

\* C8: a change of bpm, accentMode or anticipation while Running leaves
\* currentBeat, currentBar and nextEventTime unchanged.
C8_SettingsKeepTransport ==
  [][(/\ isPlaying /\ isPlaying'
      /\ (bpm' # bpm \/ accentMode' # accentMode \/ anticipation' # anticipation))
       => (/\ beatRef' = beatRef
           /\ currentBar' = currentBar
           /\ nextBeatTimeRef' = nextBeatTimeRef)]_vars

\* C9: a change of beatsPerBar resets the beat counter to 1 and leaves
\* currentBar alone; the next tone emitted after the change is beat 1.
C9_MeterReset ==
  [][/\ beatsPerBar' # beatsPerBar => (beatRef' = 1 /\ currentBar' = currentBar)
     /\ (meterFresh /\ tones' # <<>>) => (tones'[1].beat = 1)]_vars

\* C9 witness: Running, the meter was changed after beat 2 of a bar and the
\* tone that followed is beat 1.
C9_Witness ==
  /\ isPlaying
  /\ beatsPerBar # DefaultBeatsPerBar
  /\ prevTone # NoTone /\ prevTone.beat = 2
  /\ tones # <<>> /\ tones[1].beat = 1
  /\ ~meterFresh

\* C10: at most one polling interval is active, and none while Idle.
C10_OneInterval ==
  /\ Cardinality(intervals) <= 1
  /\ ~isPlaying => intervals = {}

\* C10 witness: Running on the interval created by a re-run of the scheduler
\* effect after a settings change made while Running.
C10_Witness ==
  /\ isPlaying
  /\ Cardinality(intervals) = 1
  /\ tones # <<>>
  /\ prevTone # NoTone /\ prevTone.k >= tones[1].k
  /\ \E iv \in intervals : iv.bpm # DefaultBpm

\* ------------------------------------------------------ music.ts claims
\* C11: pcOf is case-insensitive: a text, its all-upper-case form and its
\* all-lower-case form either all fail or all yield the same pitch class,
\* texts carrying the trailing minor-chord marker included.
HasThrown(r) == "threw" \in DOMAIN r

SameOutcome(a, b) == IF HasThrown(a) THEN HasThrown(b) ELSE a = b

C11_CaseInsensitive ==
  (call.fn = "pcOf" /\ Len(ret) = 3) =>
     /\ SameOutcome(ret[1], ret[2])
     /\ SameOutcome(ret[1], ret[3])

\* C12: pcOf never defaults: for a text whose normalised form is not a key
\* of the name table it throws the unknown-note error and returns no pitch
\* class, and buildNotes given a tuning with such a text throws that error
\* instead of returning a grid.
IsKnown(t) == Normalise(t) \in NoteKeys

FirstUnknown(tuning) ==
  tuning[CHOOSE i \in 1..Len(tuning) :
           ~IsKnown(tuning[i]) /\ \A j \in 1..(i - 1) : IsKnown(tuning[j])]

C12_NeverDefaults ==
  /\ call.fn = "pcOf" =>
       \A i \in 1..Len(ret) :
         ~IsKnown(call.args[i]) =>
            /\ ret[i] = Threw(<<"Unknown note: ", call.args[i]>>)
            /\ "value" \notin DOMAIN ret[i]
  /\ call.fn = "buildNotes" =>
       \A i \in 1..Len(ret) :
         (\E k \in 1..Len(call.args[i].tuning) : ~IsKnown(call.args[i].tuning[k])) =>
            /\ ret[i] = Threw(<<"Unknown note: ", FirstUnknown(call.args[i].tuning)>>)
            /\ "value" \notin DOMAIN ret[i]

\* C12 witness: buildNotes has thrown on a tuning whose second name is unknown,
\* and pcOf has thrown on a text that comes close to a name of the table.
C12_Witness ==
  \/ /\ call.fn = "buildNotes" /\ Len(ret) = 2
     /\ Len(call.args[1].tuning) = 2
     /\ IsKnown(call.args[1].tuning[1])
     /\ HasThrown(ret[1]) /\ HasThrown(ret[2])
  \/ /\ call.fn = "pcOf" /\ Len(ret) = 3
     /\ call.args[1] = <<"A", "M">>
     /\ HasThrown(ret[1])

\* C13: round trip: for every name N of the name table,
\* pcOf(pcName(pcOf(N), 'C')) equals pcOf(N).
C13_RoundTrip ==
  (call.fn = "roundTrip" /\ ret # NoRet) =>
     /\ "value" \in DOMAIN ret[1]
     /\ ret[1].value \in PCs
     /\ ret[3] = ret[1]

\* C13 witness: the round trip of a flat spelling, which pcName writes back
\* as a sharp.
C13_Witness ==
  /\ call.fn = "roundTrip" /\ ret # NoRet
  /\ call.args[1] = <<"E", "B">>
  /\ ret[2] = Returned(<<"D", "#">>)
  /\ ret[3] = Returned(3)

\* C14 (as stated): degreeLabel(tonic, note, true) and
\* degreeLabel(tonic, note, false) differ only when the note is 1 or 6
\* semitones above the tonic.
Distance(tonic, note) == (note - tonic + 12) % 12

C14_TwoSlots ==
  (call.fn = "degreeLabel" /\ ret # NoRet) =>
     (ret[1] # ret[2] => Distance(call.args[1], call.args[2]) \in {1, 6})

\* C14 (amended): the two labels differ exactly when the note is 1, 6 or 8
\* semitones above the tonic (b2/#1, b5/#4, b6/#5); for every other distance
\* the label does not depend on preferSharps.
C14_ThreeSlots ==
  (call.fn = "degreeLabel" /\ ret # NoRet) =>
     (ret[1] # ret[2] <=> Distance(call.args[1], call.args[2]) \in {1, 6, 8})

\* C14 witness: the labels of a note 8 semitones above a tonic other than C.
C14_Witness ==
  /\ call.fn = "degreeLabel" /\ ret # NoRet
  /\ call.args = <<9, 5>>
  /\ ret = <<Returned("#5"), Returned("b6")>>

\* C15: chord-tone monotonicity: for every scale (interval set containing 0)
\* and every tonic, the extended chord tones include the seventh chord tones,
\* which include the triad chord tones, which contain the tonic.
C15_Monotonic ==
  call.fn = "chordSet" =>
     /\ Len(ret) >= 1 => call.args[1][3] \in ret[1].value
     /\ Len(ret) >= 2 => ret[1].value \subseteq ret[2].value
     /\ Len(ret) >= 3 => ret[2].value \subseteq ret[3].value

\* C15 witness: natural minor in A: the three sets grow strictly.
C15_Witness ==
  /\ call.fn = "chordSet" /\ Len(ret) = 3
  /\ call.args[1][1] = {0, 2, 3, 5, 7, 8, 10}
  /\ call.args[1][3] = 9
  /\ ret[1].value = {9, 0, 4}
  /\ ret[2].value = {9, 0, 4, 7}
  /\ ret[3].value = {9, 0, 4, 7, 11, 2}

\* C17 (as stated): bar-root resolution never fails: for every text whose
\* start is not a letter A-G (any case) it returns pitch class 0, and for every
\* text it returns a value in [0,11] without raising.
StartsWithNoteLetter(t) ==
  t # <<>> /\ t[1] \in {"A", "B", "C", "D", "E", "F", "G",
                          "a", "b", "c", "d", "e", "f", "g"}

C17_RootOrZero ==
  (call.fn = "pcFromNameUnsafe" /\ ret # NoRet) =>
     /\ "value" \in DOMAIN ret[1]
     /\ ret[1].value \in 0..11
     /\ ~StartsWithNoteLetter(call.args[1]) => ret[1].value = 0

\* C17 (amended): for every text whose start, once surrounding whitespace is
\* trimmed, is not a letter A-G (any case) it returns pitch class 0, and for
\* every text it returns a value in [0,11] without raising.
RECURSIVE SkipBlanks(_)
SkipBlanks(t) == IF t # <<>> /\ t[1] = " " THEN SkipBlanks(Tail(t)) ELSE t

C17_TrimmedRootOrZero ==
  (call.fn = "pcFromNameUnsafe" /\ ret # NoRet) =>
     /\ "value" \in DOMAIN ret[1]
     /\ ret[1].value \in 0..11
     /\ ~StartsWithNoteLetter(SkipBlanks(call.args[1])) => ret[1].value = 0

\* C17 witness: a text that starts with no note letter has resolved to 0, and
\* C flat has resolved to 11.
C17_Witness ==
  /\ call.fn = "pcFromNameUnsafe" /\ ret # NoRet
  /\ \/ call.args[1] = <<"7", "A">> /\ ret[1].value = 0
     \/ call.args[1] = <<"C", "b">> /\ ret[1].value = 11

\* C18: for every tuning of valid note names and every fret window buildNotes
\* returns exactly stringCount * (endFret - startFret + 1) records, no two of
\* them at the same (column,row) position; a 6-string tuning with window
\* [0,12] gives 78 records.
C18_GridCardinality ==
  call.fn = "buildNotes" =>
     \A i \in 1..Len(ret) :
        LET o == call.args[i]
        IN (\A k \in 1..Len(o.tuning) : IsKnown(o.tuning[k])) =>
             /\ "value" \in DOMAIN ret[i]
             /\ Len(ret[i].value) = Len(o.tuning) * (o.endFret - o.startFret + 1)
             /\ \A a, b \in 1..Len(ret[i].value) :
                  (ret[i].value[a].x = ret[i].value[b].x
                     /\ ret[i].value[a].y = ret[i].value[b].y) => a = b
             /\ (Len(o.tuning) = 6 /\ o.startFret = 0 /\ o.endFret = 12) =>
                  Len(ret[i].value) = 78

\* C18 witness: the grids of the standard tuning over the window [0,12], right-
\* and left-handed.
C18_Witness ==
  /\ call.fn = "buildNotes" /\ Len(ret) = 2
  /\ call.args[1].tuning = standardTuning
  /\ call.args[1].startFret = 0 /\ call.args[1].endFret = 12
  /\ Len(ret[1].value) = 78 /\ Len(ret[2].value) = 78

\* C19: mirroring: the left-handed grid equals the right-handed grid record
\* for record, except that each column is (endFret - startFret + 1) minus the
\* right-handed column; row, pitch class, isScale and isChordTone are the
\* same. Columns and rows are in half cells.
C19_Mirroring ==
  (call.fn = "buildNotes" /\ Len(ret) = 2 /\ "value" \in DOMAIN ret[1]) =>
     LET right == ret[1].value
         left == ret[2].value
         width == call.args[1].endFret - call.args[1].startFret + 1
     IN /\ "value" \in DOMAIN ret[2]
        /\ Len(left) = Len(right)
        /\ \A i \in 1..Len(right) :
             /\ left[i].x = 2 * width - right[i].x
             /\ left[i].y = right[i].y
             /\ left[i].pc = right[i].pc
             /\ left[i].isScale = right[i].isScale
             /\ left[i].isChordTone = right[i].isChordTone

\* C19 witness: a two-string grid over frets 1..3 in which the first record
\* (lowest string, fret 1) is in the leftmost column right-handed and in the
\* rightmost column left-handed, in the bottom row both times.
C19_Witness ==
  /\ call.fn = "buildNotes" /\ Len(ret) = 2
  /\ Len(call.args[1].tuning) = 2
  /\ call.args[1].startFret = 1 /\ call.args[1].endFret = 3
  /\ "value" \in DOMAIN ret[1] /\ "value" \in DOMAIN ret[2]
  /\ ret[1].value[1].x = 1 /\ ret[2].value[1].x = 5
  /\ ret[1].value[1].y = 3 /\ ret[2].value[1].y = 3

\* ------------------------------------------------------- App.tsx claims
\* C16: for every bar 1..12 of every preset progression and every quality the
\* bar's chord-tone set is {(root + d) mod 12 : d in template}, template
\* {0,4,7} for triad and {0,4,7,10} for dominant7, root given by the chord
\* name's letter and accidental alone; the 12-bar blues in A at bar 9 with
\* dominant7 gives {4,8,11,2}.
LetterPc(c) ==
  CASE c = "C" -> 0 [] c = "D" -> 2 [] c = "E" -> 4 [] c = "F" -> 5
    [] c = "G" -> 7 [] c = "A" -> 9 [] c = "B" -> 11

PrefixRoot(name) ==
  (LetterPc(name[1])
     + (IF Len(name) >= 2 /\ name[2] = "#" THEN 1
        ELSE IF Len(name) >= 2 /\ name[2] = "b" THEN 11 ELSE 0)) % 12

Template(q) == IF q = "triad" THEN {0, 4, 7} ELSE {0, 4, 7, 10}

C16_BarChordTones ==
  LET bar == displayBar \div BarUnit
      name == PROGRESSIONS[progressionId][bar]
  IN /\ chordSetBar = {(PrefixRoot(name) + d) % 12 : d \in Template(progQuality)}
     /\ (progressionId = "12-bar Blues (A)" /\ bar = 9 /\ progQuality = "dom7")
          => chordSetBar = {4, 8, 11, 2}

\* C16 witness: bar 6 of the jazz blues (Edim) shown as a triad, and bar 1
\* (Bb7) as a dominant seventh whose seventh wraps past 11.
C16_Witness ==
  /\ progressionId = "Jazz Blues (Bb)"
  /\ \/ displayBar = Bar(6) /\ progQuality = "triad" /\ chordSetBar = {4, 8, 11}
     \/ displayBar = Bar(1) /\ progQuality = "dom7" /\ chordSetBar = {10, 2, 5, 8}

\* C20: no pitch-class value leaves [0,11]: every record of the grid and every
\* member of the scale set and of the chord-tone sets is an integer in [0,11],
\* for every key selection and every number passed to the fret setters.
C20_PitchClassRange ==
  /\ scaleSetA \subseteq 0..11
  /\ chordSetA \subseteq 0..11
  /\ chordSetBar \subseteq 0..11
  /\ \A i \in 1..Len(baseNotes.value) : baseNotes.value[i].pc \in 0..11

\* ------------------------------------------------------ remaining claims
\* C21: stableUnique(arr) returns a new array that holds each distinct value
\* of arr exactly once, in the order of first occurrence in arr, and leaves
\* arr unmodified.
FirstIndex(a, v) == CHOOSE i \in 1..Len(a) : a[i] = v /\ \A j \in 1..(i - 1) : a[j] # v

C21_StableUnique ==
  (call.fn = "stableUnique" /\ ret # NoRet) =>
     LET r == ret[1].value
         a == call.args[1]
     IN /\ r.isNew
        /\ r.arr = a
        /\ {r.out[i] : i \in 1..Len(r.out)} = {a[i] : i \in 1..Len(a)}
        /\ \A i, j \in 1..Len(r.out) : i # j => r.out[i] # r.out[j]
        /\ \A i, j \in 1..Len(r.out) :
             i < j => FirstIndex(a, r.out[i]) < FirstIndex(a, r.out[j])

\* C21 witness: an array with a repeated value between two others.
C21_Witness ==
  /\ call.fn = "stableUnique" /\ ret # NoRet
  /\ call.args[1] = <<"b", "a", "b", "c">>
  /\ ret[1].value.out = <<"b", "a", "c">>


\* C22: for every interval set containing 0, every tonic and every mode the
\* chord-tone set is the reference built degree by degree: off gives the empty
\* set; otherwise the root, 4 if present else 3 if present, 7 if present else
\* 6 if present; for seventh and extended also 10 if present else 11 if
\* present; for extended also each of 2, 5, 9 that is present; all transposed
\* by the tonic mod 12. Major/C/triad is {0,4,7}, natural minor/A/seventh is
\* {9,0,4,7}.
FirstPresent(iv, a, b) == IF a \in iv THEN {a} ELSE IF b \in iv THEN {b} ELSE {}

ReferenceDegrees(iv, mode) ==
  IF mode = "off" THEN {}
  ELSE {0} \cup FirstPresent(iv, 4, 3) \cup FirstPresent(iv, 7, 6)
         \cup (IF mode \in {"seventh", "extended"} THEN FirstPresent(iv, 10, 11) ELSE {})
         \cup (IF mode = "extended" THEN iv \cap {2, 5, 9} ELSE {})

C22_Reference ==
  call.fn = "chordSet" =>
     \A i \in 1..Min2(Len(ret), Len(call.args)) :
        LET iv == call.args[i][1]
            mode == call.args[i][2]
            t == call.args[i][3]
        IN /\ ret[i].value = {(d + t) % 12 : d \in ReferenceDegrees(iv, mode)}
           /\ (iv = {0, 2, 4, 5, 7, 9, 11} /\ t = 0 /\ mode = "triad")
                => ret[i].value = {0, 4, 7}
           /\ (iv = {0, 2, 3, 5, 7, 8, 10} /\ t = 9 /\ mode = "seventh")
                => ret[i].value = {9, 0, 4, 7}

\* C22 witness: a scale with neither third, a flat fifth and both sevenths, in
\* all four modes.
C22_Witness ==
  /\ call.fn = "chordSet" /\ Len(ret) >= 4
  /\ call.args[1][1] = {0, 2, 6, 10, 11}
  /\ call.args[1][3] = 3
  /\ ret[1].value = {3, 9}
  /\ ret[2].value = {3, 9, 1}
  /\ ret[3].value = {3, 9, 1, 5}
  /\ ret[4].value = {}

\* C30: chord tones are scale tones: for every scale whose interval set
\* contains 0, every tonic and every mode, each pitch class of the chord-tone
\* set is in the scale set of the same scale and tonic.
C30_ChordTonesInScale ==
  (call.fn = "chordSet" /\ Len(ret) > Len(call.args)) =>
     \A i \in 1..Len(call.args) : ret[i].value \subseteq ret[Len(call.args) + 1].value

\* C30 witness: the blues scale in B flat: the extended chord tones are a proper
\* part of the scale.
C30_Witness ==
  /\ call.fn = "chordSet" /\ Len(ret) = 5
  /\ call.args[1][1] = {0, 3, 5, 6, 7, 10}
  /\ call.args[1][3] = 10
  /\ ret[3].value = {10, 1, 5, 8, 3}
  /\ ret[5].value = {10, 1, 3, 4, 5, 8}


\* C23: for every beat in 1..beatsPerBar and beatsPerBar in {3,4,6}: downbeat
\* accents exactly beat 1; backbeat accents beat 2, and beat 4 iff
\* beatsPerBar >= 4, and no other beat; even accents no beat.
AccentedBeats == {i \in 1..Len(ret) : ret[i].value}

C23_Accents ==
  (call.fn = "isAccentBeat" /\ Len(ret) = call.args[1]) =>
     AccentedBeats = CASE call.args[2] = "downbeat" -> {1}
                       [] call.args[2] = "backbeat" ->
                            {2} \cup (IF call.args[1] = 3 THEN {} ELSE {4})
                       [] OTHER -> {}

\* C23 witness: a whole bar of three in backbeat mode, where beat 4 does not
\* exist, and a whole bar of six, where it does.
C23_Witness ==
  /\ call.fn = "isAccentBeat" /\ Len(ret) = call.args[1]
  /\ call.args[2] = "backbeat"
  /\ \/ call.args[1] = 3 /\ AccentedBeats = {2}
     \/ call.args[1] = 6 /\ AccentedBeats = {2, 4}


\* C28: in every reachable state the scheduler's beat counter is an integer
\* with 1 <= currentBeat <= beatsPerBar, under start, stop, polling passes and
\* changes of beatsPerBar among 3, 4 and 6, a change to a smaller meter while
\* the counter is above the new meter included.
C28_BeatInRange ==
  /\ beatRef \in 1..beatsPerBar
  /\ \A i \in 1..Len(tones) : tones[i].beat \in 1..beatsPerBar

\* C28 witness: Running in a bar of three after the meter was made smaller
\* while the counter stood above 3, and tones have been emitted since.
C28_Witness ==
  /\ isPlaying
  /\ beatsPerBar = 3
  /\ prevTone # NoTone /\ prevTone.beat > 3
  /\ tones # <<>>


\* The deferred display callback schedule() creates for the i-th tone of the
\* pass just run, and the bar the transport is in when that tone is scheduled.
TimerOf(i) == timeouts'[Len(timeouts) + i]

TransportBarAt(i) ==
  BarAfterN(LogicalBar, LastBeats(SubSeq(tones', 1, i - 1), beatsPerBar))

SwitchTime(t) == t + (SecPerBeat(bpm) * OffsetQuarters(anticipation)) \div 4

\* C24: for every last beat of a bar, scheduled at time t while the transport
\* is in bar N, exactly one deferred callback is scheduled, it sets displayBar
\* to (N mod 12) + 1, and it does so at t + secondsPerBeat * offset (offset 0,
\* 0.25, 0.5, 0.75 for immediate, e, and, a), before the next bar's first tone
\* at t + secondsPerBeat.
C24_SwitchAhead ==
  [][tones' # <<>> =>
       /\ Len(timeouts') = Len(timeouts) + Len(tones')
       /\ \A i \in 1..Len(tones') :
            tones'[i].beat = beatsPerBar =>
              /\ TimerOf(i).bar = BarAfter(TransportBarAt(i))
              /\ TimerOf(i).due = SwitchTime(tones'[i].time)
              /\ TimerOf(i).due < tones'[i].time + SecPerBeat(bpm)]_vars


\* C25: for every beat that is not the last beat of its bar, the deferred
\* callback scheduled for that beat writes to displayBar the number of the bar
\* that beat belongs to, for every polling schedule, a pass that drains several
\* beats or a whole bar before the UI has re-rendered included.
C25_FollowsBar ==
  [][tones' # <<>> =>
       \A i \in 1..Len(tones') :
          tones'[i].beat # beatsPerBar => TimerOf(i).bar = TransportBarAt(i)]_vars


\* C26: while the scheduler is Idle displayBar settles to currentBar: after
\* stop, and after a manual bar change made while stopped, once every deferred
\* display callback left over from the Running session has run and React has
\* rendered, displayBar equals currentBar.
C26_IdleDisplay ==
  (mounted /\ ~isPlaying /\ pending = NoPending /\ timeouts = <<>>)
     => displayBar = currentBar


\* C27: every bar is complete: as long as beatsPerBar is not changed, the tone
\* events are numbered 1, 2, ..., beatsPerBar, 1, ... in the order they are
\* emitted, the first of all being beat 1, and currentBar is advanced once for
\* every tone numbered beatsPerBar and for no other; under any polling passes,
\* stop/start cycles and changes of bpm, accentMode, anticipation or click
\* volume.
BeatAfter(b) == (b % beatsPerBar) + 1

C27_CompleteBars ==
  [][tones' # <<>> =>
       /\ \A i \in 1..(Len(tones') - 1) : tones'[i + 1].beat = BeatAfter(tones'[i].beat)
       /\ prevTone' = NoTone => tones'[1].beat = 1
       /\ (prevTone' # NoTone /\ ~meterFresh) => tones'[1].beat = BeatAfter(prevTone'.beat)
       /\ pending'.bar = pending.bar + LastBeats(tones', beatsPerBar)]_vars


\* C29: every scheduling pass terminates: for every bpm, zero and negative
\* included, and every clock value, each run of the loop body moves
\* nextEventTime forward and emits one tone event due before the horizon, and
\* the pass eventually exits, with nextEventTime >= clock + lookahead horizon
\* and with what the while loop as a whole computes.
C29_PassTerminates ==
  /\ [][(InLoop /\ InLoop') =>
          /\ ret'[1].loop.next > ret[1].loop.next
          /\ Len(ret'[1].loop.tones) = Len(ret[1].loop.tones) + 1
          /\ ret'[1].loop.tones[Len(ret'[1].loop.tones)].time < PassHorizon]_vars
  /\ [](PassReturned =>
          /\ ret[1].value.next >= PassHorizon
          /\ ret[1].value = Drain(PassEntry, Closure(call.args[1]), call.args[2], barRef))
  /\ <>PassReturned

\* C29 witness: a late pass with bpm zero or negative has returned after
\* emitting a tone event.
C29_Witness ==
  /\ PassReturned
  /\ call.args[1] <= 0
  /\ call.args[2] > call.args[3]
  /\ Len(ret[1].value.tones) >= 1

====
